---- MODULE Spec2Model ----
(***************************************************************************)
(* A model of the content-processor's TextExtractor                        *)
(* (services/content-processor/src/processors/text_extractor.py):          *)
(* one call of extract(url), i.e. fetch_html with its attempt loop and     *)
(* its ladder of transports, followed by the chain of extraction methods.  *)
(*                                                                         *)
(* Durations are in tenths of a second, lengths in characters.  A text is  *)
(* represented by what the code reads of it: its length and the end        *)
(* offsets of the first "<html" and of the first interstitial phrase.      *)
(***************************************************************************)
EXTENDS Integers, Sequences, FiniteSets, TLC

\* Optional values are sequences of length at most one.
None == <<>>
Some(x) == <<x>>
NoException == "none"

\* ------------------------------------------------------------------ bounds
\* max_retries is drawn from 0..MaxRetriesBound
MaxRetriesBound == 2

\* ------------------------------------------------------- program constants
\* len(text) >= 100 in the three transports
MinHtmlLen == 100
\* text[:2000] in the content sniffing and in looks_like_cloudflare
SniffLen == 2000
\* status < 400 in fetch_html
ErrorStatus == 400
\* status == 403 in fetch_html
Forbidden == 403
\* head.status_code == 405 in _warm_up
MethodNotAllowed == 405
\* len(content) > 100 in the four extraction methods
ContentFloor == 100
\* jitter's default spread, 0.6 s
Spread == 6
\* jitter(0.7) before the primary GET
HumanDelayBase == 7

\* the defaults of TextExtractor.__init__: max_retries=3, backoff_factor=1.0
DefaultMaxRetries == 3
DefaultBackoffFactor == 10

\* backoff_factor (tenths of a second); the default is 1.0
BackoffFactors == {0, 5, 10}

\* ------------------------------------------------------------------ values
Max(a, b) == IF a >= b THEN a ELSE b

\* Bodies: length, end offset of the first "<html" (0: none), end offset of
\* the first match of attention required|cloudflare|just a moment (0: none).
Bodies ==
  { b \in [len : {99, 100, 2500}, htmlEnd : {0, 5, 2000, 2001}, cfEnd : {0, 10}] :
      b.htmlEnd <= b.len /\ b.cfEnd <= b.len }

Statuses == {200, 400, 403, 503}

\* A response of a GET: status, whether Content-Type is HTML-like, whether
\* the Server header contains "cloudflare", and the body.
Responses ==
  [status : Statuses, htmlCtype : BOOLEAN, serverCf : BOOLEAN, body : Bodies]

\* What the warm-up HEAD can answer
HeadStatuses == {200, 405}

\* Exceptions a transport can raise.  Timeout and ConnectionError are
\* requests.exceptions (ConnectionError stands for every RequestException
\* that is no Timeout); CloudflareException is cloudscraper's challenge
\* solver failing, an Exception that is no RequestException; HTTPError is
\* httpx's.
RequestsErrors == {"Timeout", "ConnectionError"}
CloudscraperErrors == {"Timeout", "ConnectionError", "CloudflareException"}
HttpxErrors == {"HTTPError"}

\* What a library call of an extraction method gives: it raises, gives
\* nothing, or gives a text.  A text is its surrounding whitespace (pad) and
\* the length of what is left once stripped (core).
LibTexts == [pad : {0, 1}, core : {0, 100, 101}]
LibOutcomes ==
  { o \in [kind : {"raise", "none", "text"}, text : LibTexts] :
      o.kind # "text" => o.text = [pad |-> 0, core |-> 0] }

\* The user agents a pool is made of, and the one the service passes to the
\* constructor as user_agent (settings.user_agent).
UserAgents == {"Chrome", "Firefox"}
ServiceUserAgent == "NewsBot"

\* A URL as it is written: the scheme before ":", the host after "//", the
\* path, and, each of them present or not, "?" with the query and "#" with
\* the fragment.
Written ==
  [scheme : {"", "http", "HTTPS"}, netloc : {"example.com"},
   path : {"/a"}, query : {None, Some(""), Some("q=1")},
   fragment : {None, Some("top")}]

\* the URL of an article as a feed gives it
ArticleUrl ==
  [scheme |-> "https", netloc |-> "example.com", path |-> "/a",
   query |-> None, fragment |-> None]

\* str.lower() of a scheme
Lower(s) == IF s = "HTTPS" THEN "https" ELSE s

\* urllib.parse.urlsplit: the five components, the scheme in lower case, an
\* absent query or fragment as the empty string
urlsplit(s) ==
  [scheme |-> Lower(s.scheme), netloc |-> s.netloc, path |-> s.path,
   query |-> IF s.query = None THEN "" ELSE s.query[1],
   fragment |-> IF s.fragment = None THEN "" ELSE s.fragment[1]]

\* urllib.parse.urlunsplit: "?" and "#" are written for a non-empty query
\* and fragment only
urlunsplit(p) ==
  [scheme |-> p.scheme, netloc |-> p.netloc, path |-> p.path,
   query |-> IF p.query = "" THEN None ELSE Some(p.query),
   fragment |-> IF p.fragment = "" THEN None ELSE Some(p.fragment)]

\* with parts.fragment for ""
_normalized_url_keeps_fragment(url) ==
  urlunsplit([scheme |-> IF urlsplit(url).scheme = "" THEN "https"
                            ELSE urlsplit(url).scheme,
              netloc |-> urlsplit(url).netloc, path |-> urlsplit(url).path,
              query |-> urlsplit(url).query,
              fragment |-> urlsplit(url).fragment])

\* TextExtractor._normalized_url
_normalized_url(url) ==
  LET parts == urlsplit(url) IN
  urlunsplit([scheme |-> IF parts.scheme = "" THEN "https" ELSE parts.scheme,
              netloc |-> parts.netloc, path |-> parts.path,
              query |-> parts.query, fragment |-> ""])

\* f"{parts.scheme}://{parts.netloc}/", as written
Root(parts) ==
  [scheme |-> parts.scheme, netloc |-> parts.netloc, path |-> "/",
   query |-> None, fragment |-> None]

\* f"{parts.scheme}://{parts.netloc}", as written
Origin(parts) ==
  [scheme |-> parts.scheme, netloc |-> parts.netloc, path |-> "",
   query |-> None, fragment |-> None]

\* The headers of a request that the model follows; a header that is not
\* sent has the value None.
HeaderNames == {"User-Agent", "Referer", "Origin", "If-Modified-Since"}
NoHeaders == [k \in HeaderNames |-> None]

\* merge_headers: extra's values that are not None override base's
merge_headers(base, extra) ==
  [k \in HeaderNames |-> IF extra[k] # None THEN extra[k] ELSE base[k]]

\* A response that tells nothing has changed: status 304 and no body.
NotModifiedResponses ==
  [status : {304}, htmlCtype : BOOLEAN, serverCf : {FALSE},
   body : {[len |-> 0, htmlEnd |-> 0, cfEnd |-> 0]}]

VARIABLES
  max_retries,      \* self.max_retries
  backoff_factor,   \* self.backoff_factor, in tenths of a second
  httpx,            \* the optional imports: TRUE when the name is bound
  cloudscraper,
  trafilatura,
  NewspaperArticle,
  Document,
  BeautifulSoup,
  user_agents_pool, \* self.user_agents_pool
  url,              \* the argument of extract, as written
  revalidating,     \* the server: TRUE when it sends Last-Modified and 304
  pc,               \* position of the call extract(url)
  attempt,          \* the loop variable of fetch_html
  sleep_s,          \* the duration last slept by the backoff, or None
  html,             \* what fetch_html returned, once it has
  result,           \* what extract returned, once it has
  raised,           \* the exception that left extract, or None
  user_agent,       \* self.user_agent
  base_headers,     \* self.base_headers
  normalized,       \* fetch_html's local, once assigned
  headers,          \* _requests_fetch's local, while strategy 1 runs
  trace,            \* history: what this attempt did, in order
  blocked,          \* history: this attempt's primary GET was a 403 interstitial
  kinds,            \* history: the kinds of response obtained so far
  reqs,             \* history: the requests this attempt sent, in order
  last_modified,    \* history: the Last-Modified a response carried last
  calls,            \* history: how often each extraction method was invoked
  yielded,          \* history: what each extraction method returned
  examined,         \* history: the stripped lengths the last method looked at
  faulted,          \* history: the methods in which a library call raised
  passes,           \* history: the passes the last method ran, in order
  wpc,              \* concurrent calls of fetch_html: the position of each
  wheaders,         \* the headers each of them built last
  wattempt,         \* the loop variable of each
  rpc,              \* position of ContentProcessingService.run
  processed_count,  \* run's locals
  failed_count,
  cleaned_article,  \* what process_article returned, while run publishes it
  seen_urls,        \* self.seen_urls
  consumed,         \* history: the messages consumed so far, in order
  published,        \* history: the article_id of what was published
  epc,              \* position of EmbeddingDedupeService.run
  article,          \* run's local: the message being handled, or None
  events,           \* the events table: the embedding stored with each event
  polled,           \* history: the messages consumed by the dedupe loop, in order
  output_topic,      \* history: what was sent to settings.kafka_topic_output
  users,            \* the users table, committed rows
  organizations,    \* the organizations table, committed rows
  memberships,      \* the memberships table, committed rows
  spc,              \* position of each request handler signup
  session,          \* db of each handler: its locals and its pending rows
  responses,         \* history: the responses given, in order
  npc,              \* position of the news-fetcher: main, run_once, stream_entries
  state_file,       \* FeedHTTPState.file_path, as a list of path components
  http_state,       \* FeedHTTPState.state: the Last-Modified kept for each feed
  failed_feeds,     \* RSSFetcher.failed_feeds
  reported,         \* history: the feeds of the last failed-feeds summary
  redis,            \* the keys set in Redis by RedisDedupeStore.seen
  articles,         \* the articles table
  topic,            \* history: what was sent to settings.kafka_topic, in order
  lost,             \* history: the articles whose INSERT failed
  cycle,            \* the number of the polling cycle
  feed_i,           \* stream_entries: the loop variable i
  entries,          \* stream_entries: the entries of the feed not yet looked at
  entry,            \* run_once: the entry yielded to it, or None
  fetched,          \* history: the last answer to fetch_feed and what it returned
  extracted         \* history: the urls given to self.text_extractor.extract, in order

\* the part of the state the extraction chain writes
chain == <<result, calls, yielded, examined, faulted, passes>>
config == <<max_retries, backoff_factor, httpx, cloudscraper, trafilatura,
            NewspaperArticle, Document, BeautifulSoup, user_agents_pool,
            url, revalidating>>
\* the state of the instance and of the call that the requests are built from
wire == <<user_agent, base_headers, normalized, headers, reqs, last_modified>>
vars == <<max_retries, backoff_factor, httpx, cloudscraper, trafilatura,
          NewspaperArticle, Document, BeautifulSoup, user_agents_pool, url,
          revalidating, pc, attempt, sleep_s, html, result, raised,
          user_agent, base_headers, normalized, headers, trace, blocked,
          kinds, reqs, last_modified, calls, yielded, examined, faulted,
          passes, wpc, wheaders, wattempt, rpc, processed_count, failed_count,
          cleaned_article, seen_urls, consumed, published,
          epc, article, events, polled, output_topic,
          users, organizations, memberships, spc, session, responses,
          npc, state_file, http_state, failed_feeds, reported, redis,
          articles, topic, lost, cycle, feed_i, entries, entry, fetched,
          extracted>>
\* several calls of fetch_html at once on one instance
workers == <<wpc, wheaders, wattempt>>
\* the consume loop of the service
service == <<rpc, processed_count, failed_count, cleaned_article, seen_urls,
             consumed, published, extracted>>
\* the embedding-dedupe service
dedupe == <<epc, article, events, polled, output_topic>>
\* the user-org service: POST /auth/signup
accounts == <<users, organizations, memberships, spc, session, responses>>
\* the news-fetcher service
fetcher == <<npc, state_file, http_state, failed_feeds, reported, redis,
             articles, topic, lost, cycle, feed_i, entries, entry, fetched>>
\* the other services of the platform
others == <<dedupe, accounts, fetcher>>
\* what a call of extract(url), taken alone, leaves as it is
side == <<workers, service, others>>

MethodsSwapped == <<"newspaper3k", "trafilatura", "readability", "beautifulsoup">>

\* extract: the list methods, in its order
Methods == <<"trafilatura", "newspaper3k", "readability", "beautifulsoup">>
MethodNames == {Methods[i] : i \in 1..4}

\* ----------------------------------------------------------------- helpers
\* random.uniform(lo, hi), on the grid of tenths
Uniform(lo, hi) == IF lo <= hi THEN lo..hi ELSE hi..lo

\* lo = base - spread
jitterNoClamp(base) == Uniform(base - Spread, base + Spread)

\* jitter(base, spread=0.6): the set of values it can return
jitter(base) == Uniform(Max(0, base - Spread), base + Spread)

\* bool(resp) of a requests.Response: its ok flag
Ok(resp) == resp.status < ErrorStatus

\* "<html" in text[:2000].lower()
HasHtmlMarker(body) == body.htmlEnd > 0 /\ body.htmlEnd <= SniffLen

\* re.search(r"attention required|cloudflare|just a moment", text[:2000], re.I)
HasCfPhrase(body) == body.cfEnd > 0 /\ body.cfEnd <= SniffLen

\* without "if not resp: return False"
looks_like_cloudflare_any_status(resp) ==
  resp.serverCf \/ HasCfPhrase(resp.body)

looks_like_cloudflare(resp) ==
  IF ~Ok(resp) THEN FALSE
  ELSE IF resp.serverCf THEN TRUE
  ELSE HasCfPhrase(resp.body)

\* without the content-type test
HtmlLikeAlways(resp) == TRUE

\* the content-type test shared by the three transports
HtmlLike(resp) == resp.htmlCtype \/ HasHtmlMarker(resp.body)

\* The (text, status) a transport returns for a response; truthy is
\* bool(resp): the ok flag for requests and cloudscraper, TRUE for httpx.
Validated(resp, truthy) ==
  IF ~HtmlLike(resp) THEN [text |-> None, status |-> Some(resp.status)]
  ELSE [text |-> IF truthy /\ resp.body.len >= MinHtmlLen
                   THEN Some(resp.body.len)
                   ELSE None,
        status |-> Some(resp.status)]

\* with a 304 taken for an answer that ends the fetch
UsableOrNotModified(r) ==
  \/ r.status = Some(304)
  \/ /\ r.text # None /\ r.text[1] > 0
     /\ r.status # None /\ r.status[1] # 0
     /\ r.status[1] < ErrorStatus

\* without the test of the status
UsableAnyStatus(r) == r.text # None /\ r.text[1] > 0

\* text and status and status < 400
Usable(r) ==
  /\ r.text # None /\ r.text[1] > 0
  /\ r.status # None /\ r.status[1] # 0
  /\ r.status[1] < ErrorStatus

NoResult == [text |-> None, status |-> None]

\* ------------------------------------------------------------ fetch_html
\* An entry of the history: the operation and how it ended ("ok": it was
\* answered, "405": HEAD was answered 405, "raised", "skipped": the
\* library is not installed, so that nothing was sent).
Event(op, how) == <<op, how>>
Did(op) == \E i \in 1..Len(trace) : trace[i][1] = op
\* the position of the first op in this attempt's history, 0 when absent
Pos(op) ==
  IF Did(op) THEN CHOOSE i \in 1..Len(trace) :
                    trace[i][1] = op /\ \A j \in 1..(i - 1) : trace[j][1] # op
  ELSE 0
Count(op) == Cardinality({i \in 1..Len(trace) : trace[i][1] = op})
How(op) == IF Did(op) THEN trace[Pos(op)][2] ELSE "absent"

\* The history of the kinds of response: "none" so far, "html" once one was
\* HTML-like (an HTML content type, or "<html" within the first 2000
\* characters), otherwise "nonhtml", or "nonhtml200" once one of them had
\* status 200 and a body of 100 characters or more.
NonHtml(resp) ==
  ~resp.htmlCtype /\ ~(resp.body.htmlEnd > 0 /\ resp.body.htmlEnd <= 2000)
Seen(k, resp) ==
  IF k = "html" \/ ~NonHtml(resp) THEN "html"
  ELSE IF k = "nonhtml200" \/ (resp.status = 200 /\ resp.body.len >= 100)
    THEN "nonhtml200"
  ELSE "nonhtml"

\* range(1, self.max_retries + 2)
InRangeInclusive(a) == a <= max_retries

\* for attempt in range(1, self.max_retries + 1): after attempt a (0: none
\* yet) there is a further one
InRange(a) == a < max_retries

\* without the try/except
WarmUpCatchesNothing(e) == FALSE

\* _warm_up: except Exception: pass
WarmUpCatches(e) == TRUE

\* without the second except clause
RequestsHandlerCatchesTimeoutOnly(e) == e = "Timeout"

\* fetch_html, strategy 1: except requests.exceptions.Timeout /
\* except requests.exceptions.RequestException
RequestsHandlerCatches(e) == e \in {"Timeout", "ConnectionError"}

\* fetch_html, strategies 2 and 3: except Exception
FallbackHandlerCatches(e) == TRUE

\* The text fetch_html returns: its length, the status of its response and
\* the transport that got it; None when the transport gave no text.
Html(r, via) ==
  IF r.text = None THEN None
  ELSE Some([len |-> r.text[1], status |-> r.status[1], via |-> via])

\* with "If-Modified-Since" set from the Last-Modified seen last
_build_headers_conditional(u, ua, choice) ==
  merge_headers(base_headers,
    [k \in HeaderNames |->
       CASE k = "User-Agent" -> Some(IF ua # None THEN ua[1] ELSE choice)
         [] k = "Referer" ->
              IF urlsplit(u).netloc # "" THEN Some(Root(urlsplit(u))) ELSE None
         [] k = "Origin" ->
              IF urlsplit(u).netloc # "" THEN Some(Origin(urlsplit(u))) ELSE None
         [] OTHER -> last_modified])

\* with ua, None in every call, for "ua or random.choice(...)"
_build_headers_keeps_base(u, ua, choice) ==
  merge_headers(base_headers,
    [k \in HeaderNames |->
       CASE k = "User-Agent" -> ua
         [] k = "Referer" ->
              IF urlsplit(u).netloc # "" THEN Some(Root(urlsplit(u))) ELSE None
         [] k = "Origin" ->
              IF urlsplit(u).netloc # "" THEN Some(Origin(urlsplit(u))) ELSE None
         [] OTHER -> None])

\* TextExtractor._build_headers(url, ua=ua), when random.choice gives choice
_build_headers(u, ua, choice) ==
  LET parts == urlsplit(u) IN
  merge_headers(base_headers,
    [k \in HeaderNames |->
       CASE k = "User-Agent" -> Some(IF ua # None THEN ua[1] ELSE choice)
         [] k = "Referer" ->
              IF parts.netloc # "" THEN Some(Root(parts)) ELSE None
         [] k = "Origin" ->
              IF parts.netloc # "" THEN Some(Origin(parts)) ELSE None
         [] OTHER -> None])

\* An entry of the history of requests: the operation, the URL it targets,
\* the headers it carries, and the Last-Modified a response carried last
\* before it was sent.
Request(op, target, h, stamp) ==
  [op |-> op, url |-> target, headers |-> h, expects |-> stamp]

\* What the server can answer to a GET, and the Last-Modified header its
\* answer carries or not.
Served ==
  IF revalidating THEN Responses \cup NotModifiedResponses ELSE Responses
Stamps == IF revalidating THEN {None, Some("Mon")} ELSE {None}
Stamped(lm) == IF lm # None THEN lm ELSE last_modified
Answered(resp) == IF resp.status = 304 THEN "304" ELSE "ok"

\* normalized = self._normalized_url(url); logger.info("fetching_url")
FetchStart ==
  /\ pc = "start"
  /\ pc' = "loop"
  /\ attempt' = 0
  /\ normalized' = Some(_normalized_url(url))
  /\ UNCHANGED <<config, chain, side, sleep_s, html, raised, trace, blocked,
                 kinds, user_agent, base_headers, headers, reqs,
                 last_modified>>

\* the head of the for loop and the rotation of the user agent; sleep_s is
\* dead once slept
BeginAttempt ==
  /\ pc = "loop"
  /\ InRange(attempt)
  /\ attempt' = attempt + 1
  /\ \E ua \in user_agents_pool :
       /\ user_agent' = ua
       /\ base_headers' = [base_headers EXCEPT !["User-Agent"] = Some(ua)]
  /\ pc' = "warm_head"
  /\ trace' = <<>>
  /\ reqs' = <<>>
  /\ blocked' = FALSE
  /\ sleep_s' = None
  /\ UNCHANGED <<config, chain, side, html, raised, kinds, normalized,
                 headers, last_modified>>

\* the loop is over: logger.error("all_fetch_attempts_failed"); return None
AllAttemptsFailed ==
  /\ pc = "loop"
  /\ ~InRange(attempt)
  /\ html' = None
  /\ pc' = "fetched"
  /\ sleep_s' = None
  /\ UNCHANGED <<config, chain, side, wire, attempt, raised, trace, blocked,
                 kinds>>

\* Where an exception raised inside _requests_fetch or the early escalation
\* goes: to strategy 2 when the strategy-1 handlers catch it, out of
\* extract otherwise.
AfterStrategy1Raise(e) ==
  IF RequestsHandlerCatches(e)
    THEN /\ pc' = "httpx" /\ raised' = raised
    ELSE /\ pc' = "raised" /\ raised' = e

\* _requests_fetch: headers = self._build_headers(url), then
\* _warm_up: session.head(url, headers=headers)
WarmUpHead ==
  /\ pc = "warm_head"
  /\ \E c \in user_agents_pool :
       LET h == _build_headers(normalized[1], None, c) IN
       /\ headers' = h
       /\ reqs' = Append(reqs, Request("head", normalized[1], h, last_modified))
  /\ \/ \E st \in HeadStatuses :
          /\ trace' = Append(trace, Event("head",
                         IF st = MethodNotAllowed THEN "405" ELSE "ok"))
          /\ pc' = IF st = MethodNotAllowed THEN "warm_root" ELSE "delay"
          /\ raised' = raised
     \/ \E e \in RequestsErrors :
          /\ trace' = Append(trace, Event("head", "raised"))
          /\ IF WarmUpCatches(e)
               THEN pc' = "delay" /\ raised' = raised
               ELSE AfterStrategy1Raise(e)
  /\ UNCHANGED <<config, chain, side, attempt, sleep_s, html, blocked, kinds,
                 user_agent, base_headers, normalized, last_modified>>

\* _warm_up: session.get(root, headers=headers) after a 405
WarmUpRootGet ==
  /\ pc = "warm_root"
  /\ reqs' = Append(reqs, Request("root", Root(urlsplit(normalized[1])),
                                  headers, last_modified))
  /\ \/ /\ trace' = Append(trace, Event("root", "ok"))
        /\ pc' = "delay"
        /\ raised' = raised
     \/ \E e \in RequestsErrors :
          /\ trace' = Append(trace, Event("root", "raised"))
          /\ IF WarmUpCatches(e)
               THEN pc' = "delay" /\ raised' = raised
               ELSE AfterStrategy1Raise(e)
  /\ UNCHANGED <<config, chain, side, attempt, sleep_s, html, blocked, kinds,
                 user_agent, base_headers, normalized, headers,
                 last_modified>>

\* _requests_fetch: time.sleep(jitter(0.7)); time.sleep raises ValueError
\* on a negative duration
HumanDelay ==
  /\ pc = "delay"
  /\ \E d \in jitter(HumanDelayBase) :
       /\ trace' = Append(trace, Event("delay", "ok"))
       /\ IF d >= 0
            THEN pc' = "get" /\ raised' = raised
            ELSE pc' = "raised" /\ raised' = "ValueError"
  /\ UNCHANGED <<config, chain, side, wire, attempt, sleep_s, html, blocked,
                 kinds>>

\* _cloudscraper_fetch(url): the (text, status) it returns when the GET it
\* sends, if cloudscraper is installed, is answered by resp
CloudscraperResult(resp) ==
  IF ~cloudscraper THEN NoResult ELSE Validated(resp, Ok(resp))

\* The early escalation of strategy 1, once the primary GET, the last of
\* the requests sent, gave resp.
EarlyEscalation(resp, sent) ==
  IF ~cloudscraper
    THEN /\ trace' = trace \o <<Event("get", "ok"), Event("cs_early", "skipped")>>
         /\ pc' = "httpx"
         /\ kinds' = Seen(kinds, resp)
         /\ reqs' = sent
         /\ UNCHANGED <<html, raised>>
    ELSE \E c \in user_agents_pool :
         LET early == Append(sent, Request("cs_early", normalized[1],
                               _build_headers(normalized[1], None, c),
                               last_modified'))
         IN
         /\ reqs' = early
         /\ \/ \E e \in CloudscraperErrors :
                 /\ trace' = trace \o <<Event("get", "ok"), Event("cs_early", "raised")>>
                 /\ AfterStrategy1Raise(e)
                 /\ html' = html
                 /\ kinds' = Seen(kinds, resp)
            \/ \E o \in Responses :
                 LET r2 == CloudscraperResult(o) IN
                 /\ trace' = trace \o <<Event("get", "ok"), Event("cs_early", "ok")>>
                 /\ raised' = raised
                 /\ kinds' = Seen(Seen(kinds, resp), o)
                 /\ IF Usable(r2)
                      THEN pc' = "fetched" /\ html' = Html(r2, "cloudscraper")
                      ELSE pc' = "httpx" /\ html' = html

\* _requests_fetch: the primary GET and its validation; then fetch_html's
\* test of the result and the early escalation to cloudscraper
PrimaryGet ==
  /\ pc = "get"
  /\ headers' = NoHeaders
  /\ LET sent == Append(reqs, Request("get", normalized[1], headers,
                                      last_modified))
     IN
     \/ \E e \in RequestsErrors :
          /\ trace' = Append(trace, Event("get", "raised"))
          /\ AfterStrategy1Raise(e)
          /\ reqs' = sent
          /\ UNCHANGED <<html, blocked, kinds, last_modified>>
     \/ \E resp \in Served, lm \in Stamps :
          LET r == Validated(resp, Ok(resp)) IN
          /\ last_modified' = Stamped(lm)
          /\ blocked' = (resp.status = 403
                           /\ (resp.serverCf
                                 \/ (resp.body.cfEnd > 0 /\ resp.body.cfEnd <= 2000)))
          /\ IF Usable(r)
               THEN /\ trace' = Append(trace, Event("get", Answered(resp)))
                    /\ pc' = "fetched"
                    /\ html' = Html(r, "requests")
                    /\ raised' = raised
                    /\ kinds' = Seen(kinds, resp)
                    /\ reqs' = sent
               ELSE IF r.status = Some(Forbidden) /\ looks_like_cloudflare(resp)
                 THEN EarlyEscalation(resp, sent)
                 ELSE /\ trace' = Append(trace, Event("get", Answered(resp)))
                      /\ pc' = "httpx"
                      /\ html' = html
                      /\ raised' = raised
                      /\ kinds' = Seen(kinds, resp)
                      /\ reqs' = sent
  /\ UNCHANGED <<config, chain, side, attempt, sleep_s, user_agent,
                 base_headers, normalized>>

\* without "if httpx is None: return None, None"
HttpxMissingUnchecked == FALSE

\* _httpx_fetch: if httpx is None
HttpxMissing == ~httpx

\* _httpx_fetch and fetch_html's strategy 2; without the test of httpx the
\* name httpx.Client raises AttributeError when httpx is None
HttpxFetch ==
  /\ pc = "httpx"
  /\ IF HttpxMissing
       THEN /\ trace' = Append(trace, Event("httpx", "skipped"))
            /\ pc' = "cloudscraper"
            /\ UNCHANGED <<html, raised, kinds, reqs, last_modified>>
       ELSE IF ~httpx
         THEN /\ trace' = Append(trace, Event("httpx", "raised"))
              /\ IF FallbackHandlerCatches("AttributeError")
                   THEN pc' = "cloudscraper" /\ raised' = raised
                   ELSE pc' = "raised" /\ raised' = "AttributeError"
              /\ UNCHANGED <<html, kinds, reqs, last_modified>>
       ELSE \E c \in user_agents_pool :
            /\ reqs' = Append(reqs, Request("httpx", normalized[1],
                                _build_headers(normalized[1], None, c),
                                last_modified))
            /\ \/ \E e \in HttpxErrors :
                    /\ trace' = Append(trace, Event("httpx", "raised"))
                    /\ IF FallbackHandlerCatches(e)
                         THEN pc' = "cloudscraper" /\ raised' = raised
                         ELSE pc' = "raised" /\ raised' = e
                    /\ UNCHANGED <<html, kinds, last_modified>>
               \/ \E resp \in Served, lm \in Stamps :
                    LET r == Validated(resp, TRUE) IN
                    /\ trace' = Append(trace, Event("httpx", Answered(resp)))
                    /\ kinds' = Seen(kinds, resp)
                    /\ last_modified' = Stamped(lm)
                    /\ raised' = raised
                    /\ IF Usable(r)
                         THEN pc' = "fetched" /\ html' = Html(r, "httpx")
                         ELSE pc' = "cloudscraper" /\ html' = html
  /\ UNCHANGED <<config, chain, side, attempt, sleep_s, blocked, user_agent,
                 base_headers, normalized, headers>>

\* _cloudscraper_fetch and fetch_html's strategy 3
CloudscraperFetch ==
  /\ pc = "cloudscraper"
  /\ IF ~cloudscraper
       THEN /\ trace' = Append(trace, Event("cs", "skipped"))
            /\ pc' = "backoff"
            /\ UNCHANGED <<html, raised, kinds, reqs, last_modified>>
       ELSE \E c \in user_agents_pool :
            /\ reqs' = Append(reqs, Request("cs", normalized[1],
                                _build_headers(normalized[1], None, c),
                                last_modified))
            /\ \/ \E e \in CloudscraperErrors :
                    /\ trace' = Append(trace, Event("cs", "raised"))
                    /\ IF FallbackHandlerCatches(e)
                         THEN pc' = "backoff" /\ raised' = raised
                         ELSE pc' = "raised" /\ raised' = e
                    /\ UNCHANGED <<html, kinds, last_modified>>
               \/ \E resp \in Served, lm \in Stamps :
                    LET r == CloudscraperResult(resp) IN
                    /\ trace' = Append(trace, Event("cs", Answered(resp)))
                    /\ kinds' = Seen(kinds, resp)
                    /\ last_modified' = Stamped(lm)
                    /\ raised' = raised
                    /\ IF Usable(r)
                         THEN pc' = "fetched" /\ html' = Html(r, "cloudscraper")
                         ELSE pc' = "backoff" /\ html' = html
  /\ UNCHANGED <<config, chain, side, attempt, sleep_s, blocked, user_agent,
                 base_headers, normalized, headers>>

\* a backoff that is skipped when no attempt is left
BackoffBetweenAttempts ==
  /\ pc = "backoff"
  /\ IF InRange(attempt)
       THEN \E d \in jitter(backoff_factor * attempt) :
              /\ sleep_s' = Some(d)
              /\ IF d >= 0
                   THEN pc' = "loop" /\ raised' = raised
                   ELSE pc' = "raised" /\ raised' = "ValueError"
       ELSE sleep_s' = None /\ pc' = "loop" /\ raised' = raised
  /\ UNCHANGED <<config, chain, side, wire, attempt, html, trace, blocked,
                 kinds>>

\* sleep_s = jitter(self.backoff_factor * attempt); time.sleep(sleep_s)
Backoff ==
  /\ pc = "backoff"
  /\ \E d \in jitter(backoff_factor * attempt) :
       /\ sleep_s' = Some(d)
       /\ IF d >= 0
            THEN pc' = "loop" /\ raised' = raised
            ELSE pc' = "raised" /\ raised' = "ValueError"
  /\ UNCHANGED <<config, chain, side, wire, attempt, html, trace, blocked,
                 kinds>>

\* ------------------------------------------------------------- extraction
\* str.strip(), and get_text(strip=True)
Strip(t) == t.core

\* the stripped length a method measures when its library gives o
Measured(o) == IF o.kind = "text" THEN <<Strip(o.text)>> ELSE <<>>

\* len(content) >= 100
AtLeastFloor(n) == n >= ContentFloor

\* content and len(content) > 100
AboveFloor(n) == n > 0 /\ n > ContentFloor

\* What a method makes of its library's outcome o: a candidate when the
\* stripped text passes the floor, nothing when the library gave nothing,
\* gave too little or raised (each method's own try/except).
Candidate(name, o) ==
  IF o.kind # "text" THEN None
  ELSE IF AboveFloor(Strip(o.text))
         THEN Some([method |-> name, content |-> Strip(o.text)])
         ELSE None

\* What a pass of trafilatura came to: the library raised, gave nothing,
\* gave a text that does not pass the floor, or gave a candidate.
PassOutcome(o) ==
  IF o.kind = "raise" THEN "raised"
  ELSE IF o.kind = "none" THEN "nothing"
  ELSE IF Candidate("trafilatura", o) = None THEN "short"
  ELSE "candidate"

\* _run_trafilatura(favor_precision), when the library gives o
Pass(favor_precision, o) ==
  [favor_precision |-> favor_precision, outcome |-> PassOutcome(o)]

\* with the recall pass run whatever the precision pass gave
trafilatura_passes_both(p, r) ==
  IF ~trafilatura THEN <<>> ELSE <<Pass(TRUE, p), Pass(FALSE, r)>>

\* extract_with_trafilatura: the passes it runs, when the precision pass
\* would give p and the recall pass r
trafilatura_passes(p, r) ==
  IF ~trafilatura THEN <<>>
  ELSE IF Candidate("trafilatura", p) # None THEN <<Pass(TRUE, p)>>
  ELSE <<Pass(TRUE, p), Pass(FALSE, r)>>

\* extract_with_trafilatura: the precision pass gives p, the recall pass r
extract_with_trafilatura(p, r) ==
  IF ~trafilatura THEN None
  ELSE IF Candidate("trafilatura", p) # None THEN Candidate("trafilatura", p)
  ELSE Candidate("trafilatura", r)

extract_with_newspaper(o) ==
  IF ~NewspaperArticle THEN None ELSE Candidate("newspaper3k", o)

extract_with_readability(o) ==
  IF ~Document \/ ~BeautifulSoup THEN None ELSE Candidate("readability", o)

extract_with_beautifulsoup(o) ==
  IF ~BeautifulSoup THEN None ELSE Candidate("beautifulsoup", o)

\* result.get("text"): a key the candidates do not have
AcceptsWrongKey(res) == FALSE

\* extract: if result and result.get("content")
Accepts(res) == res # None /\ res[1].content > 0

\* the method invoked last: the one before the position of the loop, or
\* the last of the list
LastCalled ==
  IF calls[Methods[1]] = 0 THEN Methods[1]
  ELSE Methods[CHOOSE i \in 1..Len(Methods) :
                 /\ calls[Methods[i]] > 0
                 /\ \A j \in (i + 1)..Len(Methods) : calls[Methods[j]] = 0]

\* the place of a method in the list
Index(name) == CHOOSE i \in 1..Len(Methods) : Methods[i] = name

\* without "if not html: return None"
NoHtmlNever(h) == FALSE

\* extract: if not html
NoHtml(h) == h = None \/ h[1].len = 0

\* extract: html = self.fetch_html(url); if not html: return None
CheckHtml ==
  /\ pc = "fetched"
  /\ IF NoHtml(html)
       THEN pc' = "done" /\ result' = None
       ELSE pc' = Methods[1] /\ result' = result
  /\ UNCHANGED <<config, side, wire, attempt, sleep_s, html, raised, trace,
                 blocked, kinds, calls, yielded, examined, faulted, passes>>

\* with "break" for "continue" once a method has raised
MethodRoundBreaks(name, res, seen, threw) ==
  /\ calls' = [calls EXCEPT ![name] = @ + 1]
  /\ yielded' = [yielded EXCEPT ![name] = res]
  /\ examined' = seen
  /\ faulted' = IF threw THEN faulted \cup {name} ELSE faulted
  /\ IF Accepts(res)
       THEN pc' = "done" /\ result' = res
       ELSE IF Index(name) < Len(Methods) /\ ~threw
         THEN pc' = Methods[Index(name) + 1] /\ result' = result
         ELSE pc' = "done" /\ result' = None
  /\ UNCHANGED <<config, side, wire, attempt, sleep_s, html, raised, trace,
                 blocked, kinds>>

\* One round of extract's loop over the methods: the method gave res,
\* having measured the lengths in seen; threw tells that a call of its
\* library raised, which the method caught, and that no later call of the
\* method (the recall pass of trafilatura) made up for it.
MethodRound(name, res, seen, threw) ==
  /\ calls' = [calls EXCEPT ![name] = @ + 1]
  /\ yielded' = [yielded EXCEPT ![name] = res]
  /\ examined' = seen
  /\ faulted' = IF threw THEN faulted \cup {name} ELSE faulted
  /\ IF Accepts(res)
       THEN pc' = "done" /\ result' = res
       ELSE IF Index(name) < Len(Methods)
         THEN pc' = Methods[Index(name) + 1] /\ result' = result
         ELSE pc' = "done" /\ result' = None
  /\ UNCHANGED <<config, side, wire, attempt, sleep_s, html, raised, trace,
                 blocked, kinds>>

\* a library call that raises
Raises(o) == o.kind = "raise"

TryTrafilatura ==
  /\ pc = "trafilatura"
  /\ \E p \in LibOutcomes, r \in LibOutcomes :
       /\ passes' = trafilatura_passes(p, r)
       /\ MethodRound("trafilatura", extract_with_trafilatura(p, r),
                      IF ~trafilatura THEN <<>>
                      ELSE IF Candidate("trafilatura", p) # None
                        THEN Measured(p)
                      ELSE Measured(p) \o Measured(r),
                      /\ trafilatura
                      /\ \/ Raises(p) /\ Candidate("trafilatura", r) = None
                         \/ Candidate("trafilatura", p) = None /\ Raises(r))

TryNewspaper ==
  /\ pc = "newspaper3k"
  /\ passes' = <<>>
  /\ \E o \in LibOutcomes :
       MethodRound("newspaper3k", extract_with_newspaper(o),
                   IF ~NewspaperArticle THEN <<>> ELSE Measured(o),
                   NewspaperArticle /\ Raises(o))

TryReadability ==
  /\ pc = "readability"
  /\ passes' = <<>>
  /\ \E o \in LibOutcomes :
       MethodRound("readability", extract_with_readability(o),
                   IF ~Document \/ ~BeautifulSoup THEN <<>> ELSE Measured(o),
                   Document /\ BeautifulSoup /\ Raises(o))

TryBeautifulSoup ==
  /\ pc = "beautifulsoup"
  /\ passes' = <<>>
  /\ \E o \in LibOutcomes :
       MethodRound("beautifulsoup", extract_with_beautifulsoup(o),
                   IF ~BeautifulSoup THEN <<>> ELSE Measured(o),
                   BeautifulSoup /\ Raises(o))

\* ---------------------------------------------------------- specification
\* The rows of the events table, by id
EventIds == {"e1", "e2"}

\* The requests POST /auth/signup that are handled at once
Clients == {1, 2}

\* load_feeds(settings.feeds_file)
Feeds == <<"f1", "f2">>
FeedUrls == {Feeds[i] : i \in 1..Len(Feeds)}

\* The set of the callers of fetch_html
Workers == {1, 2}

\* No call of fetch_html has begun.
InitWorkers ==
  /\ wpc = [w \in Workers |-> "idle"]
  /\ wheaders = [w \in Workers |-> NoHeaders]
  /\ wattempt = [w \in Workers |-> 0]

\* ContentProcessingService.__init__ and the head of run
InitService ==
  /\ rpc = "consume"
  /\ processed_count = 0
  /\ failed_count = 0
  /\ cleaned_article = None
  /\ seen_urls = {}
  /\ consumed = <<>>
  /\ published = <<>>
  /\ extracted = <<>>

\* EmbeddingDedupeService.__init__: no event has an embedding yet
InitDedupe ==
  /\ epc = "poll"
  /\ article = None
  /\ events = [e \in EventIds |-> None]
  /\ polled = <<>>
  /\ output_topic = <<>>

\* The database is empty; no request is being handled.
InitAccounts ==
  /\ users = {}
  /\ organizations = {}
  /\ memberships = {}
  /\ spc = [c \in Clients |-> "idle"]
  /\ session = [c \in Clients |-> None]
  /\ responses = <<>>

\* main has loaded the feeds; the fetcher is not constructed yet, Redis
\* and the articles table are empty.
InitFetcher ==
  /\ npc = "new"
  /\ state_file = <<>>
  /\ http_state = [u \in FeedUrls |-> ""]
  /\ failed_feeds = <<>>
  /\ reported = <<>>
  /\ redis = {}
  /\ articles = {}
  /\ topic = <<>>
  /\ lost = {}
  /\ cycle = 0
  /\ feed_i = 0
  /\ entries = <<>>
  /\ entry = None
  /\ fetched = None

\* No call of extract(url) has begun.
InitLocals ==
  /\ InitWorkers
  /\ InitService
  /\ InitDedupe
  /\ InitAccounts
  /\ InitFetcher
  /\ pc = "start"
  /\ attempt = 0
  /\ sleep_s = None
  /\ html = None
  /\ result = None
  /\ raised = NoException
  /\ normalized = None
  /\ headers = NoHeaders
  /\ reqs = <<>>
  /\ last_modified = None
  /\ trace = <<>>
  /\ blocked = FALSE
  /\ kinds = "none"
  /\ calls = [m \in MethodNames |-> 0]
  /\ yielded = [m \in MethodNames |-> None]
  /\ examined = <<>>
  /\ passes = <<>>
  /\ faulted = {}

\* The call extract(url) is about to run on the instance the service has
\* constructed.
InitCall ==
  /\ InitLocals
  /\ user_agent = ServiceUserAgent
  /\ base_headers = [NoHeaders EXCEPT !["User-Agent"] = Some(ServiceUserAgent)]

\* A pool of one user agent, the URL of an article, a server that sends
\* neither Last-Modified nor 304: what a request carries does not bear on
\* what the call does next.
Plain ==
  /\ user_agents_pool = {"Chrome"}
  /\ url = ArticleUrl
  /\ revalidating = FALSE

\* Every configuration of the fetcher, the extraction libraries installed.
Init ==
  /\ max_retries \in -1..MaxRetriesBound
  /\ backoff_factor \in BackoffFactors
  /\ httpx \in BOOLEAN
  /\ cloudscraper \in BOOLEAN
  /\ trafilatura = TRUE
  /\ NewspaperArticle = TRUE
  /\ Document = TRUE
  /\ BeautifulSoup = TRUE
  /\ Plain
  /\ InitCall

\* Every set of installed extraction libraries, the fetcher as the service
\* constructs it: TextExtractor(user_agent=..., timeout=...), the transports
\* installed.
ExtractInit ==
  /\ max_retries = DefaultMaxRetries
  /\ backoff_factor = DefaultBackoffFactor
  /\ httpx = TRUE
  /\ cloudscraper = TRUE
  /\ trafilatura \in BOOLEAN
  /\ NewspaperArticle \in BOOLEAN
  /\ Document \in BOOLEAN
  /\ BeautifulSoup \in BOOLEAN
  /\ Plain
  /\ InitCall

Next ==
  \/ FetchStart
  \/ BeginAttempt
  \/ AllAttemptsFailed
  \/ WarmUpHead
  \/ WarmUpRootGet
  \/ HumanDelay
  \/ PrimaryGet
  \/ HttpxFetch
  \/ CloudscraperFetch
  \/ Backoff
  \/ CheckHtml
  \/ TryTrafilatura
  \/ TryNewspaper
  \/ TryReadability
  \/ TryBeautifulSoup

Spec == Init /\ [][Next]_vars

ExtractSpec == ExtractInit /\ [][Next]_vars

\* Every transport call returns or fails and the call keeps running: a step
\* that can be taken is eventually taken.
FairSpec == Spec /\ WF_vars(Next)

\* The fetcher with its defaults, every library installed.
Defaults ==
  /\ max_retries = DefaultMaxRetries
  /\ backoff_factor = DefaultBackoffFactor
  /\ httpx = TRUE
  /\ cloudscraper = TRUE
  /\ trafilatura = TRUE
  /\ NewspaperArticle = TRUE
  /\ Document = TRUE
  /\ BeautifulSoup = TRUE

\* A pool of several user agents.
RotationInit ==
  /\ Defaults
  /\ user_agents_pool = UserAgents
  /\ url = ArticleUrl
  /\ revalidating = FALSE
  /\ InitCall

RotationSpec == RotationInit /\ [][Next]_vars


\* Every way of writing the URL: with or without a scheme, a query, a
\* fragment.
UrlInit ==
  /\ max_retries = 2
  /\ backoff_factor = DefaultBackoffFactor
  /\ httpx = TRUE
  /\ cloudscraper = TRUE
  /\ trafilatura = TRUE
  /\ NewspaperArticle = TRUE
  /\ Document = TRUE
  /\ BeautifulSoup = TRUE
  /\ user_agents_pool = {"Chrome"}
  /\ url \in Written
  /\ revalidating = FALSE
  /\ InitCall

UrlSpec == UrlInit /\ [][Next]_vars


\* Every set of installed optional dependencies.
DepsInit ==
  /\ max_retries = 1
  /\ backoff_factor = DefaultBackoffFactor
  /\ httpx \in BOOLEAN
  /\ cloudscraper \in BOOLEAN
  /\ trafilatura \in BOOLEAN
  /\ NewspaperArticle \in BOOLEAN
  /\ Document \in BOOLEAN
  /\ BeautifulSoup \in BOOLEAN
  /\ Plain
  /\ InitCall

DepsSpec == DepsInit /\ [][Next]_vars


\* A server that sends Last-Modified and answers 304.
RevalidationInit ==
  /\ max_retries = 2
  /\ backoff_factor = DefaultBackoffFactor
  /\ httpx = TRUE
  /\ cloudscraper = TRUE
  /\ trafilatura = TRUE
  /\ NewspaperArticle = TRUE
  /\ Document = TRUE
  /\ BeautifulSoup = TRUE
  /\ user_agents_pool = {"Chrome"}
  /\ url = ArticleUrl
  /\ revalidating = TRUE
  /\ InitCall

RevalidationSpec == RevalidationInit /\ [][Next]_vars


\* ------------------------------------------- fetch_html, several calls
\* the state of one call of extract(url) that the other models leave alone
call == <<config, chain, pc, attempt, sleep_s, html, raised, normalized,
          headers, trace, blocked, kinds, reqs, last_modified>>

\* A user agent and the call that drew it (0: the constructor).
Drawn(c, w) == [ua |-> c, by |-> w]

\* fetch_html(url) is called by worker w
Enter(w) ==
  /\ wpc[w] = "idle"
  /\ wpc' = [wpc EXCEPT ![w] = "rotate"]
  /\ UNCHANGED <<call, others, service,
                 user_agent, base_headers, wheaders, wattempt>>

\* line 260: self.user_agent = random.choice(self.user_agents_pool)
Rotate(w) ==
  /\ wpc[w] = "rotate"
  /\ InRange(wattempt[w])
  /\ wattempt' = [wattempt EXCEPT ![w] = @ + 1]
  /\ \E c \in user_agents_pool : user_agent' = Drawn(c, w)
  /\ wpc' = [wpc EXCEPT ![w] = "store"]
  /\ UNCHANGED <<call, others, service,
                 base_headers, wheaders>>

\* line 261: self.base_headers["User-Agent"] = self.user_agent
Store(w) ==
  /\ wpc[w] = "store"
  /\ base_headers' = [base_headers EXCEPT !["User-Agent"] = Some(user_agent)]
  /\ wpc' = [wpc EXCEPT ![w] = "build"]
  /\ UNCHANGED <<call, others, service,
                 user_agent, wheaders, wattempt>>

\* _requests_fetch: headers = self._build_headers(url)
BuildHeaders(w) ==
  /\ wpc[w] = "build"
  /\ \E c \in user_agents_pool :
       wheaders' = [wheaders EXCEPT ![w] =
                      _build_headers(_normalized_url(url), None, Drawn(c, w))]
  /\ wpc' = [wpc EXCEPT ![w] = "send"]
  /\ UNCHANGED <<call, others, service,
                 user_agent, base_headers, wattempt>>

\* the requests of the attempt are sent with these headers; the attempt
\* gets the HTML or not
SendRequests(w) ==
  /\ wpc[w] = "send"
  /\ \E got \in BOOLEAN :
       wpc' = [wpc EXCEPT ![w] = IF got THEN "done" ELSE "rotate"]
  /\ UNCHANGED <<call, others, service,
                 user_agent, base_headers, wheaders, wattempt>>

\* the loop is over: return None
GiveUp(w) ==
  /\ wpc[w] = "rotate"
  /\ ~InRange(wattempt[w])
  /\ wpc' = [wpc EXCEPT ![w] = "done"]
  /\ UNCHANGED <<call, others, service,
                 user_agent, base_headers, wheaders, wattempt>>

\* Two workers share the instance the service has constructed.
WorkersInit ==
  /\ max_retries = 2
  /\ backoff_factor = DefaultBackoffFactor
  /\ httpx = TRUE
  /\ cloudscraper = TRUE
  /\ trafilatura = TRUE
  /\ NewspaperArticle = TRUE
  /\ Document = TRUE
  /\ BeautifulSoup = TRUE
  /\ user_agents_pool = UserAgents
  /\ url = ArticleUrl
  /\ revalidating = FALSE
  /\ InitLocals
  /\ user_agent = Drawn(ServiceUserAgent, 0)
  /\ base_headers = [NoHeaders EXCEPT
                       !["User-Agent"] = Some(Drawn(ServiceUserAgent, 0))]

WorkersNext ==
  \/ \E w \in Workers : Enter(w)
  \/ \E w \in Workers : Rotate(w)
  \/ \E w \in Workers : Store(w)
  \/ \E w \in Workers : BuildHeaders(w)
  \/ \E w \in Workers : SendRequests(w)
  \/ \E w \in Workers : GiveUp(w)

WorkersSpec == WorkersInit /\ [][WorkersNext]_vars


\* ------------------------------------------- ContentProcessingService.run
\* at most MaxMessages messages are consumed
MaxMessages == 3

\* The url of a raw article: "" when it has none.
ArticleUrls == {"", "u1", "u2"}

\* What a message meets: what extract(url) does for it (it returns None, a
\* candidate without content or an article, or it raises) and, for an
\* article, whether publish_message returns or raises.
Fates == {"none", "empty", "raise", "article", "article_unpublished"}

\* hashlib.md5(url.encode()).hexdigest()
Md5(u) == <<"md5", u>>

\* without the except clause of run's loop
RunHandlerCatchesNothing(e) == FALSE

\* run: except Exception around the processing of a message
RunHandlerCatches(e) == TRUE

\* with the url marked as seen once its extraction has succeeded
process_article_marks_after(m, seen) ==
  IF m.url = "" THEN [article |-> None, seen |-> seen, extract |-> FALSE]
  ELSE IF Md5(m.url) \in seen
    THEN [article |-> None, seen |-> seen, extract |-> FALSE]
  ELSE IF m.fate \in {"none", "empty", "raise"}
    THEN [article |-> None, seen |-> seen, extract |-> TRUE]
  ELSE [article |-> Some([article_id |-> m.article_id, url |-> m.url]),
        seen |-> seen \cup {Md5(m.url)}, extract |-> TRUE]

\* process_article(raw_article) when self.seen_urls is seen: what it
\* returns, what it leaves in self.seen_urls, and whether it has called
\* self.text_extractor.extract(url)
process_article(m, seen) ==
  IF m.url = "" THEN [article |-> None, seen |-> seen, extract |-> FALSE]
  ELSE IF Md5(m.url) \in seen
    THEN [article |-> None, seen |-> seen, extract |-> FALSE]
  ELSE IF m.fate \in {"none", "empty", "raise"}
    THEN [article |-> None, seen |-> seen \cup {Md5(m.url)},
          extract |-> TRUE]
  ELSE [article |-> Some([article_id |-> m.article_id, url |-> m.url]),
        seen |-> seen \cup {Md5(m.url)}, extract |-> TRUE]

\* async for raw_article in self.kafka.consume_messages():
\* cleaned_article = self.process_article(raw_article), and the else branch
Consume ==
  /\ rpc = "consume"
  /\ Len(consumed) < MaxMessages
  /\ \E u \in ArticleUrls, f \in Fates :
       LET m == [article_id |-> Len(consumed) + 1, url |-> u, fate |-> f]
           out == process_article(m, seen_urls)
       IN
       /\ consumed' = Append(consumed, m)
       /\ seen_urls' = out.seen
       /\ extracted' = IF out.extract THEN Append(extracted, m.url)
                                      ELSE extracted
       /\ IF out.article # None
            THEN /\ cleaned_article' = out.article
                 /\ rpc' = "publish"
                 /\ failed_count' = failed_count
            ELSE /\ cleaned_article' = None
                 /\ rpc' = "consume"
                 /\ failed_count' = failed_count + 1
  /\ UNCHANGED <<call, others, workers, user_agent, base_headers, processed_count,
                 published>>

\* await self.kafka.publish_message(cleaned_article); processed_count += 1,
\* or the except clause: failed_count += 1; continue
Publish ==
  /\ rpc = "publish"
  /\ LET m == consumed[Len(consumed)] IN
     IF m.fate = "article"
       THEN /\ published' = Append(published, cleaned_article[1].article_id)
            /\ processed_count' = processed_count + 1
            /\ failed_count' = failed_count
            /\ rpc' = "consume"
       ELSE /\ published' = published
            /\ processed_count' = processed_count
            /\ IF RunHandlerCatches("KafkaError")
                 THEN failed_count' = failed_count + 1 /\ rpc' = "consume"
                 ELSE failed_count' = failed_count /\ rpc' = "stopped"
  /\ cleaned_article' = None
  /\ UNCHANGED <<call, others, workers, user_agent, base_headers, seen_urls,
                 consumed, extracted>>

\* The service has started; no message has come yet.
ServiceInit ==
  /\ max_retries = DefaultMaxRetries
  /\ backoff_factor = DefaultBackoffFactor
  /\ httpx = TRUE
  /\ cloudscraper = TRUE
  /\ trafilatura = TRUE
  /\ NewspaperArticle = TRUE
  /\ Document = TRUE
  /\ BeautifulSoup = TRUE
  /\ Plain
  /\ InitCall

ServiceNext ==
  \/ Consume
  \/ Publish

ServiceSpec == ServiceInit /\ [][ServiceNext]_vars


\* ------------------------------------------- EmbeddingDedupeService.run
\* the content-processor, which the other services leave alone
processor == <<call, workers, service, user_agent, base_headers>>
\* what the embedding-dedupe service leaves alone
outside_dedupe == <<processor, accounts, fetcher>>

\* at most MaxArticles messages are consumed by the dedupe loop
MaxArticles == 3

\* What title and summary say: two texts on one story get embeddings more
\* similar than the threshold, two texts on different stories do not.
Stories == {"s1", "s2"}

\* article.get("event_id"): None when the message has none
EventIdsOrNone == {None} \cup {Some(e) : e \in EventIds}

\* The messages of the input topic.
Enriched(n) == [article_id : {n}, event_id : EventIdsOrNone, story : Stories]

\* VectorStore.find_similar_event: the rows whose embedding is more similar
\* than the threshold; the query returns one of the most similar, or None
Similar(rows, embedding) == {e \in EventIds : rows[e] = embedding}

\* what is sent to the output topic: the article with the fields added
Marked(a, dup) ==
  [article_id |-> a.article_id, event_id |-> a.event_id,
   is_duplicate |-> dup]

\* for message in self.consumer: ... embedding = generate(text_to_embed);
\* if not embedding: continue
Poll ==
  /\ epc = "poll"
  /\ Len(polled) < MaxArticles
  /\ \E m \in Enriched(Len(polled) + 1), generated \in BOOLEAN :
       /\ polled' = Append(polled, m)
       /\ IF generated
            THEN article' = Some(m) /\ epc' = "find"
            ELSE article' = None /\ epc' = "poll"
  /\ UNCHANGED <<outside_dedupe, events, output_topic>>

\* 2. similar_event = self.vector_store.find_similar_event(...); if
\* similar_event: mark the article as a duplicate, send it, continue.
\* A failed query returns None; a send that raises ends the loop.
FindSimilar ==
  /\ epc = "find"
  /\ LET a == article[1]
         found == Similar(events, Some(a.story))
     IN \E queried \in BOOLEAN, sendable \in BOOLEAN :
          IF queried /\ found # {}
            THEN IF sendable
                   THEN /\ output_topic' = Append(output_topic, Marked(a, TRUE))
                        /\ epc' = "poll"
                        /\ article' = None
                   ELSE /\ output_topic' = output_topic
                        /\ epc' = "closed"
                        /\ article' = None
            ELSE /\ output_topic' = output_topic
                 /\ epc' = "update"
                 /\ article' = article
  /\ UNCHANGED <<outside_dedupe, events, polled>>

\* event_id = article.get("event_id"); if event_id:
HasEventId(a) == a.event_id # None

\* 3. update the event with the embedding, 4. publish the unique event; a
\* message without event_id is passed over ("strict mode")
UpdateEvent ==
  /\ epc = "update"
  /\ LET a == article[1] IN
     IF HasEventId(a)
       THEN \E success \in BOOLEAN, sendable \in BOOLEAN :
              IF success
                THEN /\ events' = [events EXCEPT ![a.event_id[1]] = Some(a.story)]
                     /\ IF sendable
                          THEN /\ output_topic' =
                                    Append(output_topic, Marked(a, FALSE))
                               /\ epc' = "poll"
                          ELSE /\ output_topic' = output_topic
                               /\ epc' = "closed"
                ELSE /\ events' = events
                     /\ output_topic' = output_topic
                     /\ epc' = "poll"
       ELSE /\ events' = events
            /\ output_topic' = output_topic
            /\ epc' = "poll"
  /\ article' = None
  /\ UNCHANGED <<outside_dedupe, polled>>

\* The dedupe service has started; the content-processor is at rest.
DedupeInit == ServiceInit

DedupeNext ==
  \/ Poll
  \/ FindSimilar
  \/ UpdateEvent

DedupeSpec == DedupeInit /\ [][DedupeNext]_vars


\* ------------------------------------------------- POST /auth/signup
\* what the signup handlers leave alone
outside_accounts == <<processor, dedupe, fetcher>>

\* at most MaxSignups requests are made
MaxSignups == 3

\* user_data.email: the part before the "@" and the part after it
Emails == {[mailbox |-> "ann", domain |-> "x.com"],
           [mailbox |-> "bob", domain |-> "x.com"],
           [mailbox |-> "ann", domain |-> "y.org"]}

\* domain = user_data.email.split("@")[1]
Domain(e) == e.domain

\* the requests in hand
Handled == {c \in Clients : spc[c] # "idle"}

\* the rows other sessions have flushed and not committed
PendingOrgs(c) ==
  {session[d][1].org[1] : d \in {x \in Handled \ {c} : session[x][1].new_org}}
PendingUsers(c) ==
  {session[d][1].email : d \in {x \in Handled \ {c} : session[x][1].flushed}}

\* the response to the request of c; the session is closed, and what it
\* had flushed and not committed is gone
Respond(c, status, detail) ==
  /\ responses' = Append(responses,
       [id |-> session[c][1].id, email |-> session[c][1].email,
        status |-> status, detail |-> detail,
        registered |-> \E u \in users : u.email = session[c][1].email])
  /\ session' = [session EXCEPT ![c] = None]
  /\ spc' = [spc EXCEPT ![c] = "idle"]

\* a request POST /auth/signup reaches the handler
Signup(c) ==
  /\ spc[c] = "idle"
  /\ Len(responses) + Cardinality(Handled) < MaxSignups
  /\ \E e \in Emails :
       session' = [session EXCEPT ![c] =
         Some([id |-> Len(responses) + Cardinality(Handled) + 1, email |-> e,
               org |-> None, new_org |-> FALSE, flushed |-> FALSE])]
  /\ spc' = [spc EXCEPT ![c] = "check"]
  /\ UNCHANGED <<outside_accounts, users, organizations, memberships,
                 responses>>

\* 1. Check if user exists
CheckUser(c) ==
  /\ spc[c] = "check"
  /\ IF \E u \in users : u.email = session[c][1].email
       THEN Respond(c, 400, "Email already registered")
       ELSE /\ spc' = [spc EXCEPT ![c] = "select_org"]
            /\ UNCHANGED <<session, responses>>
  /\ UNCHANGED <<outside_accounts, users, organizations, memberships>>

\* 3. select(Organization).where(Organization.domain == domain)
SelectOrg(c) ==
  /\ spc[c] = "select_org"
  /\ LET found == {o \in organizations : o.domain = Domain(session[c][1].email)}
     IN IF found # {}
          THEN /\ \E o \in found :
                    session' = [session EXCEPT ![c][1].org = Some(o)]
               /\ spc' = [spc EXCEPT ![c] = "insert_user"]
          ELSE /\ session' = session
               /\ spc' = [spc EXCEPT ![c] = "insert_org"]
  /\ UNCHANGED <<outside_accounts, users, organizations, memberships,
                 responses>>

\* db.add(org); await db.flush(): the INSERT waits for a session that has
\* flushed the same domain, and violates Organization.domain's unique
\* constraint when the row is committed; the IntegrityError leaves the
\* handler
InsertOrg(c) ==
  /\ spc[c] = "insert_org"
  /\ LET s == session[c][1]
         org == [id |-> s.id, domain |-> Domain(s.email)]
     IN
     /\ \A o \in PendingOrgs(c) : o.domain # org.domain
     /\ IF \E o \in organizations : o.domain = org.domain
          THEN Respond(c, 500, "Internal Server Error")
          ELSE /\ session' = [session EXCEPT ![c][1].org = Some(org),
                                             ![c][1].new_org = TRUE]
               /\ spc' = [spc EXCEPT ![c] = "insert_user"]
               /\ responses' = responses
  /\ UNCHANGED <<outside_accounts, users, organizations, memberships>>

\* 4. db.add(new_user); await db.flush(): likewise, with User.email's
\* unique constraint
InsertUser(c) ==
  /\ spc[c] = "insert_user"
  /\ session[c][1].email \notin PendingUsers(c)
  /\ IF \E u \in users : u.email = session[c][1].email
       THEN Respond(c, 500, "Internal Server Error")
       ELSE /\ session' = [session EXCEPT ![c][1].flushed = TRUE]
            /\ spc' = [spc EXCEPT ![c] = "commit"]
            /\ responses' = responses
  /\ UNCHANGED <<outside_accounts, users, organizations, memberships>>

\* 5. db.add(membership); await db.commit(); 6. the token. An
\* IntegrityError raised by the commit is answered 400.
Commit(c) ==
  /\ spc[c] = "commit"
  /\ LET s == session[c][1]
         new_user == [id |-> s.id, email |-> s.email]
         org == s.org[1]
         role == IF s.new_org THEN "admin" ELSE "member"
     IN
     IF \/ \E u \in users : u.email = s.email
        \/ s.new_org /\ \E o \in organizations : o.domain = org.domain
       THEN /\ Respond(c, 400, "Registration failed")
            /\ UNCHANGED <<users, organizations, memberships>>
       ELSE /\ users' = users \cup {new_user}
            /\ organizations' = organizations \cup {org}
            /\ memberships' = memberships \cup
                 {[user_id |-> new_user.id, organization_id |-> org.id,
                   role |-> role]}
            /\ Respond(c, 200, "bearer")
  /\ UNCHANGED outside_accounts

\* The user-org service has started with an empty database.
AccountsInit == ServiceInit

AccountsNext ==
  \/ \E c \in Clients : Signup(c)
  \/ \E c \in Clients : CheckUser(c)
  \/ \E c \in Clients : SelectOrg(c)
  \/ \E c \in Clients : InsertOrg(c)
  \/ \E c \in Clients : InsertUser(c)
  \/ \E c \in Clients : Commit(c)

AccountsSpec == AccountsInit /\ [][AccountsNext]_vars


\* ------------------------------------------------------- the news-fetcher
\* what the news-fetcher leaves alone
outside_fetcher == <<processor, dedupe, accounts>>
\* what the feeds are fetched with, what the entries go to, where the loops
\* stand
feed_state == <<http_state, failed_feeds, reported, fetched>>
stores == <<redis, articles, topic, lost>>
cursor == <<cycle, feed_i, entries, entry>>

\* at most MaxCycles polling cycles are run
MaxCycles == 2

\* The file paths a FeedHTTPState can be given, as lists of components: ""
\* (the default of RSSFetcher), "feeds.json", "state/feeds.json".
StateFiles == {<<>>, <<"feeds.json">>, <<"state", "feeds.json">>}

\* os.path.dirname(path)
Dirname(path) == IF path = <<>> THEN <<>> ELSE SubSeq(path, 1, Len(path) - 1)

\* FeedHTTPState.save: os.makedirs(os.path.dirname(self.file_path),
\* exist_ok=True) raises FileNotFoundError for the empty path; otherwise the
\* file is written
Saves(path) == Dirname(path) # <<>>

\* The entries of the feeds: 'id' (or None), 'link'.
FeedEntries ==
  [e1 |-> [id |-> Some("g1"), link |-> "l1"],
   e2 |-> [id |-> None, link |-> "l1"],
   e3 |-> [id |-> Some("g3"), link |-> "l2"]]

\* what feedparser.parse(content).entries can be
Parsed ==
  {<<>>, <<FeedEntries.e1, FeedEntries.e2>>, <<FeedEntries.e2, FeedEntries.e3>>}

\* What session.get meets: it raises (a timeout, a connection error), or a
\* response with its status, its content type (XML or RSS, or not), its
\* Last-Modified header ("" when it has none) and its entries.  A server
\* answers 304 to a conditional request only.
Answers(conditional) ==
  {[kind |-> "raise", status |-> 0, xml |-> FALSE, last_modified |-> "",
    parsed |-> <<>>]}
  \cup {[kind |-> "response", status |-> s, xml |-> FALSE,
         last_modified |-> "", parsed |-> <<>>] :
          s \in IF conditional THEN {304, 500} ELSE {500}}
  \cup [kind : {"response"}, status : {200}, xml : BOOLEAN,
        last_modified : {"", "Mon"}, parsed : Parsed]

\* RSSFetcher.fetch_feed(session, url) when the request is answered by a and
\* self.http_state.state is st: the entries it returns and the state it
\* leaves.  set_last_modified writes self.state before it saves; what save
\* raises is caught by the except clause of fetch_feed.
fetch_feed(u, a, st) ==
  IF a.kind = "raise" \/ a.status # 200 \/ ~a.xml
    THEN [entries |-> <<>>, state |-> st]
  ELSE IF a.last_modified # "" /\ ~Saves(state_file)
    THEN [entries |-> <<>>,
          state |-> [st EXCEPT ![u] = a.last_modified]]
  ELSE [entries |-> a.parsed,
        state |-> IF a.last_modified # ""
                    THEN [st EXCEPT ![u] = a.last_modified]
                    ELSE st]

\* hashlib.md5(entry["link"].encode()).hexdigest()
hexdigest(link) == IF link = "l1" THEN "837ec5" ELSE "d41d8c"

\* entry.get('id') or entry.get('guid') or entry.get('link', '')
entry_id(e) == IF e.id # None THEN e.id[1] ELSE e.link

\* f"seen:{item_id}"
SeenKey(item_id) == <<"seen", item_id>>

\* main: fetcher = RSSFetcher(...), or a fetcher given an http_state
Construct ==
  /\ npc = "new"
  /\ state_file' \in StateFiles
  /\ npc' = "idle"
  /\ UNCHANGED <<outside_fetcher, feed_state, stores, cursor>>

\* main: await run_once(...); stream_entries: self.failed_feeds = []
StartCycle ==
  /\ npc = "idle"
  /\ cycle < MaxCycles
  /\ cycle' = cycle + 1
  /\ failed_feeds' = <<>>
  /\ fetched' = None
  /\ feed_i' = 1
  /\ npc' = "fetch"
  /\ UNCHANGED <<outside_fetcher, state_file, http_state, reported, stores,
                 entries, entry>>

\* stream_entries: feed_title, entries = await self.fetch_feed(session,
\* url); if not entries: self.failed_feeds.append(...); continue
FetchFeed ==
  /\ npc = "fetch"
  /\ feed_i <= Len(Feeds)
  /\ LET u == Feeds[feed_i] IN
     \E a \in Answers(http_state[u] # "") :
       LET got == fetch_feed(u, a, http_state) IN
       /\ http_state' = got.state
       /\ fetched' = Some([url |-> u, status |-> a.status, xml |-> a.xml,
                           last_modified |-> a.last_modified,
                           parsed |-> Len(a.parsed),
                           returned |-> Len(got.entries)])
       /\ IF got.entries = <<>>
            THEN /\ failed_feeds' = Append(failed_feeds, u)
                 /\ feed_i' = feed_i + 1
                 /\ entries' = <<>>
                 /\ npc' = "fetch"
            ELSE /\ failed_feeds' = failed_feeds
                 /\ feed_i' = feed_i
                 /\ entries' = got.entries
                 /\ npc' = "entries"
  /\ UNCHANGED <<outside_fetcher, state_file, reported, stores, cycle, entry>>

\* stream_entries: for entry in entries: ... if dedupe_store.seen(entry_id):
\* continue; yield feed_title, entry_data
NextEntry ==
  /\ npc = "entries"
  /\ entries # <<>>
  /\ LET e == Head(entries) IN
     /\ entries' = Tail(entries)
     /\ redis' = redis \cup {SeenKey(entry_id(e))}
     /\ IF SeenKey(entry_id(e)) \in redis
          THEN entry' = None /\ npc' = "entries"
          ELSE entry' = Some(e) /\ npc' = "article"
  /\ UNCHANGED <<outside_fetcher, state_file, feed_state, articles, topic,
                 lost, cycle, feed_i>>

\* stream_entries: the entries of the feed are done; the next feed
EndFeed ==
  /\ npc = "entries"
  /\ entries = <<>>
  /\ feed_i' = feed_i + 1
  /\ npc' = "fetch"
  /\ UNCHANGED <<outside_fetcher, state_file, feed_state, stores, cycle,
                 entries, entry>>

\* with the article published after a failed INSERT
PublishAfterDbError == FALSE

\* run_once: except Exception around the INSERT: continue
SkipAfterDbError == TRUE

\* run_once: article_id; if dedupe.seen(article_id): continue; the INSERT
\* into articles, which does nothing when source_url is there already
InsertArticle ==
  /\ npc = "article"
  /\ LET link == entry[1].link
         article_id == hexdigest(link)
     IN
     /\ redis' = redis \cup {SeenKey(article_id)}
     /\ IF SeenKey(article_id) \in redis
          THEN /\ npc' = "entries"
               /\ entry' = None
               /\ UNCHANGED <<articles, lost>>
          ELSE \E inserted \in BOOLEAN :
               IF inserted
                 THEN /\ articles' =
                           IF \E r \in articles : r.source_url = link
                             THEN articles
                             ELSE articles \cup
                                    {[id |-> article_id, source_url |-> link,
                                      fetched_at |-> cycle]}
                      /\ lost' = lost
                      /\ npc' = "send"
                      /\ entry' = entry
                 ELSE /\ articles' = articles
                      /\ lost' = lost \cup {[id |-> article_id, fetched_at |-> cycle]}
                      /\ IF SkipAfterDbError
                           THEN npc' = "entries" /\ entry' = None
                           ELSE npc' = "send" /\ entry' = entry
  /\ UNCHANGED <<outside_fetcher, state_file, feed_state, topic, cycle,
                 feed_i, entries>>

\* run_once: await producer.send(key=article_id, value=output); when it
\* raises, the cycle is over ("Cycle failed")
SendArticle ==
  /\ npc = "send"
  /\ \E sent \in BOOLEAN :
       IF sent
         THEN /\ topic' = Append(topic,
                   [article_id |-> hexdigest(entry[1].link),
                    fetched_at |-> cycle])
              /\ npc' = "entries"
              /\ entries' = entries
         ELSE /\ topic' = topic
              /\ npc' = "idle"
              /\ entries' = <<>>
  /\ entry' = None
  /\ UNCHANGED <<outside_fetcher, state_file, feed_state, redis, articles,
                 lost, cycle, feed_i>>

\* stream_entries: the feeds are done, the failed-feeds summary is logged;
\* main sleeps until the next cycle
Summary ==
  /\ npc = "fetch"
  /\ feed_i > Len(Feeds)
  /\ reported' = failed_feeds
  /\ npc' = "idle"
  /\ UNCHANGED <<outside_fetcher, state_file, http_state, failed_feeds,
                 fetched, stores, cursor>>

\* main has waited for Kafka and loaded the feeds.
FetcherInit == ServiceInit

FetcherNext ==
  \/ Construct
  \/ StartCycle
  \/ FetchFeed
  \/ NextEntry
  \/ EndFeed
  \/ InsertArticle
  \/ SendArticle
  \/ Summary

FetcherSpec == FetcherInit /\ [][FetcherNext]_vars


\* ------------------------------------------------------------------ claims
\* fetch_html has returned (extract may have gone on)
Returned == pc \in ({"fetched", "done"} \cup MethodNames)
\* strategy 1 of the current attempt is over and the attempt goes on
PastStrategy1 == pc \in {"httpx", "cloudscraper", "backoff"}

\* C1: no failure of a transport (warm-up, requests GET, early escalation,
\* httpx GET, cloudscraper fallback) leaves fetch_html as an exception, and
\* when every transport of every attempt failed the call returns None.
C1_NeverRaises ==
  /\ pc # "raised"
  /\ raised = NoException
  /\ (Returned /\ kinds = "none") => html = None

\* every transport of the last attempt raised and fetch_html returned None
C1_Witness ==
  /\ pc = "fetched" /\ html = None /\ attempt = 2
  /\ How("head") = "raised" /\ How("get") = "raised"
  /\ How("httpx") = "raised" /\ How("cs") = "raised"

\* C2: when the primary GET of an attempt is answered 403 by what looks
\* like an interstitial, cloudscraper (installed) is invoked in that
\* attempt before httpx is.
C2_EscalatesBeforeHttpx ==
  (cloudscraper /\ blocked /\ Did("httpx")) =>
     (Did("cs_early") /\ Pos("cs_early") < Pos("httpx"))

\* the order of the claims: trafilatura, newspaper3k, readability,
\* beautifulsoup
Order == <<"trafilatura", "newspaper3k", "readability", "beautifulsoup">>

\* C3: once a method has returned an acceptable candidate, no later method
\* of the order is invoked.
C3_NoLaterMethod ==
  \A i \in 1..4 : \A j \in 1..4 :
     (i < j /\ yielded[Order[i]] # None) => calls[Order[j]] = 0

C3_Witness ==
  /\ pc = "done"
  /\ yielded["trafilatura"] # None
  /\ result = yielded["trafilatura"]
  /\ calls["trafilatura"] = 1

C5_FirstAcceptable ==
  (pc = "done" /\ html # None) =>
    /\ result # None =>
         \E i \in 1..4 :
            /\ result = yielded[Order[i]]
            /\ result[1].method = Order[i]
            /\ \A j \in 1..4 : j < i =>
                  (calls[Order[j]] = 1 /\ yielded[Order[j]] = None)
    /\ result = None <=>
         \A i \in 1..4 : calls[Order[i]] = 1 /\ yielded[Order[i]] = None

\* the third method is the first to yield a candidate, which is returned
C5_Witness ==
  /\ pc = "done"
  /\ yielded["trafilatura"] = None /\ yielded["newspaper3k"] = None
  /\ result # None /\ result[1].method = "readability"

\* C6: when no response of any transport in any attempt was HTML-like,
\* fetch_html returns None.
C6_NonHtmlGivesNone ==
  (Returned /\ kinds \in {"nonhtml", "nonhtml200"}) => html = None

\* some response had status 200 and 100 characters or more, none was HTML
C6_Witness ==
  pc = "fetched" /\ kinds = "nonhtml200" /\ html = None /\ attempt = 2

\* C7: the attempts are numbered 1, 2, ... in sequence and are at most
\* max_retries; nothing more is tried once a transport has yielded usable
\* HTML; fetch_html returns, and it returns None exactly after max_retries
\* attempts without usable HTML; with max_retries <= 0 it sends nothing.
C7_BoundedAttempts ==
  /\ [](attempt >= 0 /\ attempt <= Max(0, max_retries))
  /\ []((Returned /\ html = None) => attempt = Max(0, max_retries))
  /\ [](max_retries <= 0 => trace = <<>>)
  /\ [][/\ attempt' # attempt => (attempt' = attempt + 1 /\ pc = "loop")
        /\ html # None => (attempt' = attempt /\ trace' = trace)
        /\ html' # None => (html' = html \/ pc \in {"get", "httpx", "cloudscraper"})
       ]_vars
  /\ <>Returned

\* max_retries attempts, at least two, failed and fetch_html returned None
C7_Witness ==
  /\ pc = "fetched" /\ html = None
  /\ max_retries >= 2 /\ attempt = max_retries
  /\ Did("cs")

\* C8: the backoff slept after the failed attempt n lasts between
\* backoff_factor * n - 0.6 and backoff_factor * n + 0.6 seconds and is
\* never negative.
C8_BackoffWindow ==
  sleep_s # None =>
    /\ pc \in {"loop", "raised"}
    /\ attempt >= 1 /\ attempt <= max_retries
    /\ sleep_s[1] >= backoff_factor * attempt - 6
    /\ sleep_s[1] <= backoff_factor * attempt + 6
    /\ sleep_s[1] >= 0

\* a backoff of zero seconds where the window starts below zero
C8_Witness ==
  /\ pc = "loop" /\ sleep_s = Some(0)
  /\ backoff_factor > 0 /\ backoff_factor * attempt - 6 < 0

\* C9: within an attempt the transports are tried in the order requests,
\* httpx, cloudscraper; a transport is tried whenever the ones before it
\* yielded nothing usable, however they failed, and never after one of them
\* succeeded.
C9_TransportOrder ==
  /\ pc # "raised"
  /\ Count("get") <= 1 /\ Count("httpx") <= 1 /\ Count("cs") <= 1
  /\ Did("httpx") => (Did("get") /\ Pos("get") < Pos("httpx"))
  /\ Did("cs") => (Did("httpx") /\ Pos("httpx") < Pos("cs"))
  /\ PastStrategy1 => Did("get")
  /\ pc \in {"cloudscraper", "backoff"} => Did("httpx")
  /\ pc = "backoff" => Did("cs")
  /\ (Returned /\ html = None /\ attempt >= 1) =>
        (Did("get") /\ Did("httpx") /\ Did("cs"))
  /\ (Returned /\ html # None) =>
        /\ html[1].via = "requests" =>
              (How("get") = "ok" /\ ~Did("httpx") /\ ~Did("cs"))
        /\ html[1].via = "httpx" =>
              (Did("get") /\ How("httpx") = "ok" /\ ~Did("cs"))
        /\ html[1].via = "cloudscraper" =>
              (Did("get") /\ Did("httpx")
                 /\ How("cs") = "ok" /\ trace[Len(trace)][1] = "cs")

\* strategy 1 raised, strategy 2 raised, strategy 3 yielded the HTML
C9_Witness ==
  /\ pc = "fetched" /\ html # None /\ html[1].via = "cloudscraper"
  /\ How("get") = "raised" /\ How("httpx") = "raised"

\* C10: in every attempt the warm-up comes before the randomized delay and
\* the delay before the primary GET; the warm-up sends a GET to the root
\* exactly when its HEAD was answered 405; and whatever fails in the
\* warm-up, the primary GET of the attempt is sent.
C10_WarmUp ==
  /\ pc # "raised"
  /\ Did("delay") => (Did("head") /\ Pos("head") < Pos("delay"))
  /\ Did("root") => Pos("head") < Pos("root")
  /\ (Did("root") /\ Did("delay")) => Pos("root") < Pos("delay")
  /\ Did("get") => (Did("delay") /\ Pos("delay") < Pos("get"))
  /\ (Did("delay") \/ pc = "delay") => (Did("root") <=> How("head") = "405")
  /\ (PastStrategy1 \/ (Returned /\ attempt >= 1)) => Did("get")

\* the HEAD was answered 405, the GET to the root raised, and the primary
\* GET was sent all the same
C10_Witness ==
  /\ How("head") = "405" /\ How("root") = "raised"
  /\ Did("get") /\ Pos("root") < Pos("get")

\* C11: every request of an attempt (warm-up, requests GET, httpx GET,
\* cloudscraper GET) carries in its User-Agent header the user agent that
\* was selected at the start of the attempt.
C11_SelectedUserAgent ==
  \A i \in 1..Len(reqs) : reqs[i].headers["User-Agent"] = Some(user_agent)

Unavailable(m) ==
  CASE m = "trafilatura" -> ~trafilatura
    [] m = "newspaper3k" -> ~NewspaperArticle
    [] m = "readability" -> ~Document \/ ~BeautifulSoup
    [] m = "beautifulsoup" -> ~BeautifulSoup

\* C14: whatever optional dependencies are missing, nothing is raised; a
\* transport whose library is missing sends nothing and yields nothing, a
\* method whose library is missing yields nothing without calling anything;
\* and the call goes on from there as it does after a failure: the
\* transports and the methods left are tried in the same order.
C14_MissingDependencies ==
  /\ pc # "raised" /\ raised = NoException
  /\ (~httpx /\ Did("httpx")) =>
        /\ How("httpx") = "skipped"
        /\ \A i \in 1..Len(reqs) : reqs[i].op # "httpx"
  /\ (~cloudscraper /\ Did("cs")) =>
        /\ How("cs") = "skipped"
        /\ \A i \in 1..Len(reqs) : reqs[i].op # "cs"
  /\ html # None =>
        /\ html[1].via = "httpx" => httpx
        /\ html[1].via = "cloudscraper" => cloudscraper
  /\ How("httpx") \in {"skipped", "raised"} =>
        (pc = "cloudscraper" \/ (Did("cs") /\ Pos("httpx") < Pos("cs")))
  /\ How("cs") \in {"skipped", "raised"} =>
        (pc \in {"backoff", "loop"} \/ (Returned /\ html = None))
  /\ \A i \in 1..4 :
        /\ (Unavailable(Order[i]) /\ calls[Order[i]] > 0) =>
              /\ yielded[Order[i]] = None
              /\ Order[i] \notin faulted
              /\ LastCalled = Order[i] => examined = <<>>
        /\ (calls[Order[i]] > 0 /\ yielded[Order[i]] = None /\ i < 4) =>
              (pc = Order[i + 1] \/ calls[Order[i + 1]] = 1)
        /\ \A j \in 1..4 : (i < j /\ calls[Order[j]] > 0) => calls[Order[i]] = 1
  /\ (pc = "done" /\ html # None /\ \A m \in MethodNames : Unavailable(m)) =>
        (result = None /\ \A m \in MethodNames : calls[m] = 1)

\* httpx is missing and cloudscraper got the HTML; trafilatura and
\* BeautifulSoup are missing and newspaper3k gave the candidate
C14_Witness ==
  /\ pc = "done"
  /\ ~httpx /\ How("httpx") = "skipped"
  /\ html # None /\ html[1].via = "cloudscraper"
  /\ ~trafilatura /\ ~BeautifulSoup
  /\ calls["trafilatura"] = 1
  /\ result # None /\ result[1].method = "newspaper3k"

\* extract has returned without a candidate to build an article from
Failed ==
  /\ pc = "done"
  /\ \/ html = None
     \/ \A m \in MethodNames : yielded[m] = None

\* C15 as stated: a failed call of extract returns a result that carries a
\* reason tag: NoUsableHTML, BlockedByAntiBot or ContentTooShort.
C15_ReasonTag ==
  Failed =>
    /\ result # None
    /\ result[1].reason \in {"NoUsableHTML", "BlockedByAntiBot", "ContentTooShort"}

\* C15, amended: a failed call of extract returns None, whatever made it
\* fail: the attempts exhausted, an interstitial in the way, or HTML from
\* which no method got more than the floor.
C15_FailureIsNone ==
  Failed => result = None

\* the last attempt met an interstitial, no transport got HTML, and extract
\* returned None
C15_Witness ==
  /\ pc = "done" /\ html = None /\ result = None
  /\ attempt = 2 /\ blocked

C19_MutualExclusion ==
  /\ \A v \in Workers : \A w \in Workers :
        (v # w /\ wpc[v] = "store") => wpc[w] # "store"
  /\ \A w \in Workers :
        wheaders[w]["User-Agent"] # None => wheaders[w]["User-Agent"][1].by = w

\* C19, amended: the headers of a call's request hold no value that
\* another call wrote: their User-Agent is the call's own draw, the other
\* headers depend on the URL alone.
C19_OwnHeaders ==
  \A w \in Workers :
     wpc[w] = "send" =>
        /\ wheaders[w]["User-Agent"] # None
        /\ wheaders[w]["User-Agent"][1].by = w
        /\ wheaders[w]["Referer"] = Some(Root(urlsplit(_normalized_url(url))))
        /\ wheaders[w]["Origin"] = Some(Origin(urlsplit(_normalized_url(url))))
        /\ wheaders[w]["If-Modified-Since"] = None

\* worker 1 sends its request while base_headers holds what worker 2
\* selected, and self.user_agent what worker 2 selected after that
C19_Witness ==
  /\ wpc[1] = "send"
  /\ base_headers["User-Agent"][1].by = 2
  /\ user_agent.by = 2
  /\ wpc[2] = "store"
  /\ wheaders[1]["User-Agent"][1].by = 1

\* message i is the first with its url, has one, and extract gave an
\* article for it
Good(i) ==
  /\ consumed[i].url # ""
  /\ \A j \in 1..(i - 1) : consumed[j].url # consumed[i].url
  /\ consumed[i].fate \in {"article", "article_unpublished"}

\* the messages whose processing is over
Settled ==
  IF rpc = "publish" THEN 1..(Len(consumed) - 1) ELSE 1..Len(consumed)

\* C20: a message whose extraction fails (extract returns None or no
\* content, or raises) is not published; the loop never stops on it; the
\* messages after it are processed as ever, an article among them being
\* published; and after every message processed_count + failed_count is the
\* number of messages consumed.
C20_LoopGoesOn ==
  /\ rpc # "stopped"
  /\ processed_count + failed_count = Cardinality(Settled)
  /\ processed_count = Len(published)
  /\ \A i \in 1..Len(published) : \A j \in 1..Len(published) :
        i < j => published[i] < published[j]
  /\ \A i \in Settled :
        (\E k \in 1..Len(published) : published[k] = i)
            <=> (Good(i) /\ consumed[i].fate = "article")
  /\ rpc = "publish" => Good(Len(consumed))

\* extract raised for the first message, the second was published, and
\* the third had no url
C20_Witness ==
  /\ rpc = "consume" /\ Len(consumed) = 3
  /\ consumed[1].fate = "raise" /\ consumed[1].url = "u1"
  /\ consumed[2].fate = "article" /\ consumed[2].url = "u2"
  /\ consumed[3].url = ""
  /\ published = <<2>>
  /\ processed_count = 1 /\ failed_count = 2

\* C21: the embedding-dedupe service fails closed on a missing correlation
\* identifier: for a consumed message that has no event_id nothing is sent
\* to the output topic, on the duplicate branch as on the unique branch.
C21_FailsClosed ==
  \A i \in 1..Len(output_topic) : output_topic[i].event_id # None

\* C22: in any interleaving of POST /auth/signup requests, a signup whose
\* email is already registered is answered 400 with a detail that says
\* "already registered" and creates no user, organization or membership,
\* and there is at most one user per email.
C22_DuplicateEmailRejected ==
  /\ \A i \in 1..Len(responses) :
       responses[i].registered =>
         /\ responses[i].status = 400
         /\ responses[i].detail = "Email already registered"
         /\ \A u \in users : u.id # responses[i].id
         /\ \A o \in organizations : o.id # responses[i].id
         /\ \A m \in memberships : m.user_id # responses[i].id
  /\ \A u, v \in users : u.email = v.email => u = v

\* the backoff has just slept
Slept == pc = "backoff" /\ sleep_s' # None

\* C23 (as claimed): a backoff sleep happens only after a failed attempt n
\* with n < max_retries, so that a further attempt follows every sleep.
C23_SleepOnlyBeforeAttempt == [][Slept => attempt < max_retries]_vars

\* C23 (amended): a backoff sleep follows every failed attempt n, 1 <= n <=
\* max_retries, the last one included: no attempt after the first begins
\* without a sleep before it, and fetch_html returns None right after the
\* sleep that follows the last attempt, not right after its transports.
C23_SleepAfterEveryAttempt ==
  /\ []((pc = "loop" /\ attempt >= 1) => sleep_s # None)
  /\ [][/\ Slept => (attempt >= 1 /\ attempt <= max_retries)
        /\ (attempt' = attempt + 1 /\ attempt >= 1) => sleep_s # None
        /\ (pc = "loop" /\ pc' = "fetched" /\ max_retries >= 1) =>
             (sleep_s # None /\ attempt = max_retries /\ html' = None)
       ]_vars

\* the last of at least two attempts has failed and the backoff has slept,
\* with no attempt left
C23_Witness ==
  /\ pc = "loop" /\ sleep_s # None
  /\ max_retries >= 2 /\ attempt = max_retries
  /\ Did("cs")

\* how often this attempt has sent a request through cloudscraper, by the
\* early escalation or by strategy 3
ChallengeCalls ==
  Cardinality({i \in 1..Len(trace) :
                 /\ trace[i][1] \in {"cs_early", "cs"}
                 /\ trace[i][2] # "skipped"})

C25_RecallOnlyAfterPrecision ==
  (trafilatura /\ calls["trafilatura"] > 0 /\ calls["newspaper3k"] = 0) =>
    /\ Len(passes) \in {1, 2}
    /\ passes[1].favor_precision
    /\ Len(passes) = 2 <=> passes[1].outcome \in {"raised", "nothing", "short"}
    /\ Len(passes) = 2 => ~passes[2].favor_precision
    /\ Len(passes) = 1 =>
         /\ passes[1].outcome = "candidate"
         /\ yielded["trafilatura"] # None
    /\ (yielded["trafilatura"] # None) <=>
         passes[Len(passes)].outcome = "candidate"
    /\ \A i \in 1..Len(examined) :
         (i < Len(examined) \/ yielded["trafilatura"] = None)
           => examined[i] <= ContentFloor

\* the precision pass raised, the recall pass was run and gave the candidate
C25_Witness ==
  /\ calls["trafilatura"] = 1 /\ calls["newspaper3k"] = 0
  /\ passes = <<Pass(TRUE, [kind |-> "raise", text |-> [pad |-> 0, core |-> 0]]),
                Pass(FALSE, [kind |-> "text", text |-> [pad |-> 1, core |-> 101]])>>
  /\ result # None

\* C26: what fetch_html returns, when not None, is the body of a response
\* with a known status below 400 and with at least 100 characters; a body
\* that came with a status of 400 or more is never returned, whichever
\* transport fetched it.
C26_ReturnedHtmlIsUsable ==
  html # None =>
    /\ html[1].status > 0 /\ html[1].status < ErrorStatus
    /\ html[1].len >= MinHtmlLen
    /\ html[1].via \in {"requests", "httpx", "cloudscraper"}

\* the primary GET was answered by an interstitial with status 403, which
\* was not returned; httpx then got the page
C26_Witness ==
  /\ pc = "fetched" /\ blocked
  /\ html # None /\ html[1].via = "httpx" /\ html[1].len = 100

\* the feed fetched last was answered 304
NotModified == fetched # None /\ fetched[1].status = 304

\* C27: a feed answered 304 is treated as "no new content": it yields no
\* entries, it is not recorded in failed_feeds and not reported in the
\* failed-feeds summary.
C27_NotModifiedFeedNotFailed ==
  NotModified =>
    /\ fetched[1].returned = 0
    /\ \A i \in 1..Len(failed_feeds) : failed_feeds[i] # fetched[1].url
    /\ npc = "idle" =>
         \A i \in 1..Len(reported) : reported[i] # fetched[1].url

\* C28: fetch_feed returns the parsed entries for every response with
\* status 200, an XML or RSS content type and at least one entry, with a
\* Last-Modified header or without, whatever the file path of its
\* http_state: recording Last-Modified never makes the fetch fail.
C28_LastModifiedNeverFails ==
  (fetched # None /\ fetched[1].status = 200 /\ fetched[1].xml
     /\ fetched[1].parsed > 0)
    => fetched[1].returned = fetched[1].parsed

\* C29: process_article calls the extractor at most once for each URL as
\* long as the instance lives: the hash of the URL is put into seen_urls
\* before the extraction, so that a later message with the same URL is
\* skipped whether the first extraction succeeded or failed; seen_urls
\* only grows.
C29_ExtractedOncePerUrl ==
  /\ [](\A i, j \in 1..Len(extracted) : extracted[i] = extracted[j] => i = j)
  /\ [](\A i \in 1..Len(extracted) : Md5(extracted[i]) \in seen_urls)
  /\ [](\A i \in 1..Len(consumed) :
          consumed[i].url # "" =>
            \E j \in 1..Len(extracted) : extracted[j] = consumed[i].url)
  /\ [][seen_urls \subseteq seen_urls']_vars

\* the extraction of u1 raised for the first message; the second message
\* has the same url and was skipped
C29_Witness ==
  /\ Len(consumed) = 2
  /\ consumed[1].url = "u1" /\ consumed[1].fate = "raise"
  /\ consumed[2].url = "u1" /\ consumed[2].fate = "article"
  /\ extracted = <<"u1">> /\ published = <<>> /\ failed_count = 2

\* C30: every article sent to Kafka was inserted into the database before,
\* in the same cycle; each article_id is sent at most once; an article is
\* marked seen before the INSERT, so that one whose INSERT failed is not sent
\* in that cycle nor in a later one.
C30_InsertedThenSentOnce ==
  /\ \A i \in 1..Len(topic) :
       \E r \in articles :
         r.id = topic[i].article_id /\ r.fetched_at = topic[i].fetched_at
  /\ npc = "send" =>
       \E r \in articles :
         r.id = hexdigest(entry[1].link) /\ r.fetched_at = cycle
  /\ \A i, j \in 1..Len(topic) :
       topic[i].article_id = topic[j].article_id => i = j
  /\ \A r \in articles \cup lost : SeenKey(r.id) \in redis
  /\ \A i \in 1..Len(topic) : \A r \in lost : r.id # topic[i].article_id

\* the INSERT of the article of link l1 failed in the first cycle; in the
\* second cycle a feed offered that link again, and only the article of
\* link l2 was sent
C30_Witness ==
  /\ [id |-> hexdigest("l1"), fetched_at |-> 1] \in lost
  /\ cycle = 2 /\ npc = "entries" /\ entries = <<>>
  /\ fetched # None /\ fetched[1].returned = 2
  /\ topic = <<[article_id |-> hexdigest("l2"), fetched_at |-> 2]>>

====
